---- MODULE Spec2Model ----
(***************************************************************************)
(* Model of the key pool of jina-http-proxy: the "keys" table, the         *)
(* repository operations InsertKey, UseBestKey (one action per statement   *)
(* of the transaction) and GetKeyStats, the clock behind now(), the        *)
(* proxy's request interceptor, which calls UseBestKey for every request,  *)
(* the KeyService and the key API handler over it, and the goroutines of   *)
(* runSrv that start and shut down the two HTTP servers.                   *)
(*                                                                         *)
(* Granularity.  Every SQL statement is one atomic step, as READ COMMITTED *)
(* gives each statement its own snapshot.  `keys' is the committed table;  *)
(* the uncommitted UPDATE of a transaction lives in `written' until its    *)
(* COMMIT.  now() is PostgreSQL's transaction timestamp: the clock value   *)
(* at BEGIN.  A statement that reports an error has had no effect on the   *)
(* committed table (a failed COMMIT has not committed).  A call returns in *)
(* the step of its last statement: the COMMIT, or the deferred rollback.   *)
(* callStart and txNow are cleared once no later step of the call reads    *)
(* them.                                                                   *)
(***************************************************************************)
EXTENDS Integers, FiniteSets, Sequences, TLC

\* Largest value of the clock: timestamps range over 0..MaxClock.
MaxClock == 1

\* balance given to every key by InsertKey.
DefaultBalance == 1000000

\* The balances the repository tests store with their own INSERTs.
SeedBalances == {1000, 2000, 3000}

\* The ids that may be stored, and the concurrent callers of UseBestKey.
Keys == {"k1", "k2", "k3"}
Procs == {"p1", "p2"}

\* SQL NULL in the used_at column.
NULL == -1
\* A nil *string result, and the owner of an unlocked row.
Nil == "nil"
NoOwner == "none"

\* Outcomes of a call: err == nil, sql.ErrNoRows, any other error.
OK == "ok"
ErrNoRows == "sql: no rows in result set"
ErrIO == "io error"
NoResult == [key |-> Nil, err |-> "pending"]
\* HTTP status codes the key API handler answers with.
StatusOK == 200
StatusCreated == 201
StatusBadRequest == 400
StatusInternalServerError == 500


\* rows.Scan of a NULL column into a field that is not nullable.
ErrScan == "sql: Scan error: converting NULL is unsupported"

\* A nil *KeyStats is the empty sequence, &stats a sequence of one KeyStats.
NilStats == << >>
\* No InsertKey or GetKeyStats call has returned yet.
NoCall == [op |-> "none", key |-> Nil, stats |-> NilStats, err |-> "pending"]

\* Values of the Authorization header: absent, "Bearer " + key, and what a
\* client may send.
NoAuth == << >>
Bearer(k) == <<"Bearer", k>>
ClientAuths == {NoAuth, Bearer("client-token")}
\* The clients of KeyService: the key API handler and the proxy handlers.
Clients == {"api"} \cup Procs
\* No call of the service by a client yet.
NoService == [op |-> "none", arg |-> Nil, repo |-> << >>, out |-> NoCall]
\* The key API handler has answered no request.
NoResponse == [endpoint |-> "none", body |-> Nil, calls |-> << >>,
               status |-> 0, payload |-> NilStats]

\* The two http.Server of runSrv.
Servers == {"api", "proxy"}
\* runSrv after it has started its four goroutines: the context is live,
\* both servers listen, the shutdown goroutines wait on ctx.Done(), no
\* goroutine has returned, errGroup.Wait() blocks.
Serving ==
    [ctx |-> "live",
     state |-> [s \in Servers |-> "listening"],
     conns |-> [s \in Servers |-> 0],
     listen |-> [s \in Servers |-> "running"],
     shutdown |-> [s \in Servers |-> "waiting"],
     err |-> "none",
     main |-> "waiting"]

\* Errors inside runSrv: what Accept fails with, what ListenAndServe returns
\* after Shutdown, and ctx.Err() of the cancelled context; "none" is nil.
ErrAccept == "accept: listener failed"
ErrServerClosed == "http: Server closed"
ErrCanceled == "context canceled"
\* Most connections one server has in service at a time.
MaxConns == 1


\* A proxy handler that holds no request.
NoRequest == [stage |-> "none", recv |-> NoAuth, auth |-> NoAuth, calls |-> 0, resp |-> Nil]

VARIABLES
    keys,       \* committed table: id -> [balance, createdAt, usedAt]
    lock,       \* row lock: id -> owning caller or NoOwner
    clock,      \* wall clock of the database server
    pc,         \* position of each caller inside UseBestKey
    callStart,  \* clock when the caller entered UseBestKey
    txNow,      \* now() of the caller's transaction (clock at BEGIN)
    sel,        \* the local variable key
    written,    \* the transaction holds an uncommitted used_at = now()
    ret,        \* what the call returns
    api,        \* what the last InsertKey or GetKeyStats call returned
    req,        \* the request each proxy handler holds
    svc,        \* the last KeyService call of each client of the service
    http,       \* the last request the key API handler answered
    srv         \* runSrv: context, servers, goroutines

vars == <<keys, lock, clock, pc, callStart, txNow, sel, written, ret, api, req,
          svc, http, srv>>

Times == 0..MaxClock

\* ---- the table ----------------------------------------------------------

Row(b, c, u) == [balance |-> b, createdAt |-> c, usedAt |-> u]

Present == DOMAIN keys

\* A faulty variant of UsedAtBefore: used_at ASC NULLS FIRST.
UsedAtBeforeNullsFirst(x, y) == y # NULL /\ (x = NULL \/ x < y)

\* used_at ASC: NULL sorts after every non-null value.
UsedAtBefore(x, y) == x # NULL /\ (y = NULL \/ x < y)

\* A faulty variant of RankBefore: ORDER BY created_at DESC, used_at ASC,
\* without balance as the last sort key.
RankBeforeWithoutBalance(a, b) ==
    \/ a.createdAt > b.createdAt
    \/ a.createdAt = b.createdAt /\ UsedAtBefore(a.usedAt, b.usedAt)


\* A faulty variant of RankBefore: balance ASC as the last sort key.
RankBeforeBalanceAsc(a, b) ==
    \/ a.createdAt > b.createdAt
    \/ a.createdAt = b.createdAt /\ UsedAtBefore(a.usedAt, b.usedAt)
    \/ a.createdAt = b.createdAt /\ a.usedAt = b.usedAt /\ a.balance < b.balance

\* ORDER BY created_at DESC, used_at ASC, balance DESC: a strictly before b.
RankBefore(a, b) ==
    \/ a.createdAt > b.createdAt
    \/ a.createdAt = b.createdAt /\ UsedAtBefore(a.usedAt, b.usedAt)
    \/ a.createdAt = b.createdAt /\ a.usedAt = b.usedAt /\ a.balance > b.balance

\* A faulty variant of Lockable: a plain SELECT, which takes no notice of row locks.
LockableIgnoringLocks(p) == Present

\* SKIP LOCKED: the rows no other transaction holds a lock on.
Lockable(p) == {k \in Present : lock[k] \in {NoOwner, p}}

\* LIMIT 1 of the ordered rows of S: a row no row of S ranks before
\* (rows equal in all three columns come in either order).
BestOf(S) == {k \in S : \A j \in S : ~RankBefore(keys[j], keys[k])}

\* ---- InsertKey ------------------------------------------------------------

\* A faulty variant of Inserted: used_at set to now() at creation.
InsertedAsUsed(k) ==
    IF k \in Present THEN keys
    ELSE [j \in Present \cup {k} |->
            IF j = k THEN Row(DefaultBalance, clock, clock) ELSE keys[j]]


\* A faulty variant of Inserted: INSERT ... ON CONFLICT (key) DO UPDATE,
\* which writes the row anew.
InsertedOrReplaced(k) ==
    [j \in Present \cup {k} |->
        IF j = k THEN Row(DefaultBalance, clock, NULL) ELSE keys[j]]


\* INSERT ... ON CONFLICT DO NOTHING, created_at DEFAULT now(), used_at NULL.
Inserted(k) ==
    IF k \in Present THEN keys
    ELSE [j \in Present \cup {k} |->
            IF j = k THEN Row(DefaultBalance, clock, NULL) ELSE keys[j]]

InsertKey(k) ==
    /\ keys' = Inserted(k)
    /\ UNCHANGED <<lock, clock, pc, callStart, txNow, sel, written, ret, api, req, svc, http, srv>>

\* KeyDBRepository.InsertKey: the statement is executed and its error, nil
\* here, is returned.
RepoInsertKey(k) ==
    /\ keys' = Inserted(k)
    /\ api' = [op |-> "InsertKey", key |-> k, stats |-> NilStats, err |-> OK]
    /\ UNCHANGED <<lock, clock, pc, callStart, txNow, sel, written, ret, req>>

\* ExecContext fails (store unreachable): nothing is inserted.
RepoInsertKeyFail(k) ==
    /\ api' = [op |-> "InsertKey", key |-> k, stats |-> NilStats, err |-> ErrIO]
    /\ UNCHANGED <<keys, lock, clock, pc, callStart, txNow, sel, written, ret, req>>


\* ---- GetKeyStats ------------------------------------------------------------

RECURSIVE SumBalance(_)
\* SUM(balance) over the rows with ids in S, S not empty.
SumBalance(S) ==
    IF S = {} THEN 0
    ELSE LET k == CHOOSE j \in S : TRUE
         IN  keys[k].balance + SumBalance(S \ {k})

\* A faulty variant of Aggregate: SELECT COUNT(*), SUM(DISTINCT balance).
AggregateDistinct ==
    [Count |-> Cardinality(Present),
     Balance |-> IF Present = {} THEN NULL
                 ELSE LET B == {keys[k].balance : k \in Present}
                          RECURSIVE Sum(_)
                          Sum(T) == IF T = {} THEN 0
                                    ELSE LET b == CHOOSE x \in T : TRUE
                                         IN  b + Sum(T \ {b})
                      IN  Sum(B)]

\* The row SELECT COUNT(*), SUM(balance) FROM keys returns: SUM over no
\* rows is NULL.
Aggregate ==
    [Count |-> Cardinality(Present),
     Balance |-> IF Present = {} THEN NULL ELSE SumBalance(Present)]

\* .Scan(&stats.Count, &stats.Balance) and the two returns: a NULL cannot
\* be stored in the numeric field Balance, Scan reports an error and the
\* call returns nil, err.
Scanned(row) ==
    IF row.Balance = NULL
    THEN [op |-> "GetKeyStats", key |-> Nil, stats |-> NilStats, err |-> ErrScan]
    ELSE [op |-> "GetKeyStats", key |-> Nil, stats |-> <<row>>, err |-> OK]

RepoGetKeyStats ==
    /\ api' = Scanned(Aggregate)
    /\ UNCHANGED <<keys, lock, clock, pc, callStart, txNow, sel, written, ret, req>>

\* The query fails (store unreachable).
RepoGetKeyStatsFail ==
    /\ api' = [op |-> "GetKeyStats", key |-> Nil, stats |-> NilStats, err |-> ErrIO]
    /\ UNCHANGED <<keys, lock, clock, pc, callStart, txNow, sel, written, ret, req>>


\* The repository operations called on their own.
InsertKeyCall(k) == RepoInsertKey(k) /\ UNCHANGED <<svc, http, srv>>

InsertKeyFail(k) == RepoInsertKeyFail(k) /\ UNCHANGED <<svc, http, srv>>

GetKeyStats == RepoGetKeyStats /\ UNCHANGED <<svc, http, srv>>

GetKeyStatsFail == RepoGetKeyStatsFail /\ UNCHANGED <<svc, http, srv>>

\* ---- the clock ------------------------------------------------------------

Tick ==
    /\ clock < MaxClock
    /\ clock' = clock + 1
    /\ UNCHANGED <<keys, lock, pc, callStart, txNow, sel, written, ret, api, req, svc, http, srv>>

\* ---- UseBestKey -----------------------------------------------------------

\* UseBestKey is entered by a caller that is not inside a call.
EnterUseBestKey(p) ==
    /\ pc[p] \in {"idle", "done"}
    /\ pc' = [pc EXCEPT ![p] = "begin"]
    /\ callStart' = [callStart EXCEPT ![p] = clock]
    /\ ret' = [ret EXCEPT ![p] = NoResult]
    /\ UNCHANGED <<keys, lock, clock, txNow, sel, written>>

\* A direct call of UseBestKey.
Call(p) ==
    /\ EnterUseBestKey(p)
    /\ UNCHANGED <<api, req, svc, http, srv>>

\* tx, err := r.db.BeginTx(ctx, nil), err == nil
BeginTx(p) ==
    /\ pc[p] = "begin"
    /\ pc' = [pc EXCEPT ![p] = "select"]
    /\ txNow' = [txNow EXCEPT ![p] = clock]
    /\ UNCHANGED <<keys, lock, clock, callStart, sel, written, ret, api, req, svc, http, srv>>

\* BeginTx failed: return nil, err before the rollback is deferred.
BeginTxFail(p) ==
    /\ pc[p] = "begin"
    /\ pc' = [pc EXCEPT ![p] = "done"]
    /\ ret' = [ret EXCEPT ![p] = [key |-> Nil, err |-> ErrIO]]
    /\ callStart' = [callStart EXCEPT ![p] = 0]
    /\ txNow' = [txNow EXCEPT ![p] = 0]
    /\ UNCHANGED <<keys, lock, clock, sel, written, api, req, svc, http, srv>>

\* A faulty variant of Selected: LIMIT 1 applied before the locked rows are skipped.
SelectedLimitFirst(p) == BestOf(Present) \cap Lockable(p)

\* The row the SELECT returns and locks.
Selected(p) == BestOf(Lockable(p))

\* A faulty variant of Awaited: FOR UPDATE without SKIP LOCKED waits for the lock of
\* the first-ranked row.
AwaitedWithoutSkip(p) == {k \in BestOf(Present) : lock[k] \notin {NoOwner, p}}

\* The locked rows the SELECT waits for: none, SKIP LOCKED passes over them.
Awaited(p) == {}

SelectKey(p) ==
    /\ pc[p] = "select"
    /\ Awaited(p) = {}
    /\ \E k \in Selected(p) :
        /\ sel' = [sel EXCEPT ![p] = k]
        /\ lock' = [lock EXCEPT ![k] = p]
    /\ pc' = [pc EXCEPT ![p] = "update"]
    /\ UNCHANGED <<keys, clock, callStart, txNow, written, ret, api, req, svc, http, srv>>

\* A faulty variant of SelectNoRows: sql.ErrNoRows swallowed, return nil, nil.
SelectNoRowsSwallowed(p) ==
    /\ pc[p] = "select"
    /\ BestOf(Lockable(p)) = {}
    /\ pc' = [pc EXCEPT ![p] = "rollback"]
    /\ ret' = [ret EXCEPT ![p] = [key |-> Nil, err |-> OK]]
    /\ callStart' = [callStart EXCEPT ![p] = 0]
    /\ txNow' = [txNow EXCEPT ![p] = 0]
    /\ UNCHANGED <<keys, lock, clock, sel, written, api, req, svc, http, srv>>

\* The SELECT returns no row: Scan gives sql.ErrNoRows, return nil, err.
SelectNoRows(p) ==
    /\ pc[p] = "select"
    /\ Awaited(p) = {}
    /\ Selected(p) = {}
    /\ pc' = [pc EXCEPT ![p] = "rollback"]
    /\ ret' = [ret EXCEPT ![p] = [key |-> Nil, err |-> ErrNoRows]]
    /\ callStart' = [callStart EXCEPT ![p] = 0]
    /\ txNow' = [txNow EXCEPT ![p] = 0]
    /\ UNCHANGED <<keys, lock, clock, sel, written, api, req, svc, http, srv>>

\* A statement of the transaction fails (connection lost, context
\* cancelled): return nil, err; the deferred rollback follows.
StmtFail(p) ==
    /\ pc[p] \in {"select", "update", "commit"}
    /\ pc' = [pc EXCEPT ![p] = "rollback"]
    /\ ret' = [ret EXCEPT ![p] = [key |-> Nil, err |-> ErrIO]]
    /\ callStart' = [callStart EXCEPT ![p] = 0]
    /\ txNow' = [txNow EXCEPT ![p] = 0]
    /\ UNCHANGED <<keys, lock, clock, sel, written, api, req, svc, http, srv>>

\* A faulty variant of UpdateUsedAt: the UPDATE issued on r.db instead of tx, so that
\* it commits on its own.
UpdateUsedAtOutsideTx(p) ==
    /\ pc[p] = "update"
    /\ keys' = [keys EXCEPT ![sel[p]].usedAt = txNow[p]]
    /\ pc' = [pc EXCEPT ![p] = "commit"]
    /\ UNCHANGED <<lock, clock, callStart, txNow, sel, written, ret, api, req, svc, http, srv>>

\* UPDATE keys SET used_at = now() WHERE key = $1, inside the transaction.
UpdateUsedAt(p) ==
    /\ pc[p] = "update"
    /\ written' = [written EXCEPT ![p] = TRUE]
    /\ pc' = [pc EXCEPT ![p] = "commit"]
    /\ UNCHANGED <<keys, lock, clock, callStart, txNow, sel, ret, api, req, svc, http, srv>>

\* A faulty variant of Committed: the UPDATE is missing from the transaction.
CommittedWithoutUpdate(p) == keys

\* A faulty variant of Committed: the UPDATE also charges the key's balance.
CommittedWithCharge(p) ==
    IF written[p]
    THEN [keys EXCEPT ![sel[p]].usedAt = txNow[p],
                      ![sel[p]].balance = keys[sel[p]].balance - 1]
    ELSE keys


\* The table after p's transaction commits.
Committed(p) ==
    IF written[p]
    THEN [keys EXCEPT ![sel[p]].usedAt = txNow[p]]
    ELSE keys

\* The locks after p's transaction ends.
Released(p) == [k \in Keys |-> IF lock[k] = p THEN NoOwner ELSE lock[k]]

\* tx.Commit() succeeds; return &key, nil (the deferred rollback of a
\* finished transaction does nothing).
Commit(p) ==
    /\ pc[p] = "commit"
    /\ keys' = Committed(p)
    /\ lock' = Released(p)
    /\ written' = [written EXCEPT ![p] = FALSE]
    /\ pc' = [pc EXCEPT ![p] = "done"]
    /\ ret' = [ret EXCEPT ![p] = [key |-> sel[p], err |-> OK]]
    /\ txNow' = [txNow EXCEPT ![p] = 0]
    /\ sel' = [sel EXCEPT ![p] = Nil]
    /\ UNCHANGED <<clock, callStart, api, req, svc, http, srv>>

\* A faulty variant of Rollback: the transaction is abandoned without
\* ROLLBACK, so its row lock stays.
RollbackKeepingLocks(p) ==
    /\ pc[p] = "rollback"
    /\ written' = [written EXCEPT ![p] = FALSE]
    /\ pc' = [pc EXCEPT ![p] = "done"]
    /\ txNow' = [txNow EXCEPT ![p] = 0]
    /\ sel' = [sel EXCEPT ![p] = Nil]
    /\ UNCHANGED <<keys, lock, clock, callStart, ret, api, req, svc, http, srv>>


\* The deferred tx.Rollback() on an error return.
Rollback(p) ==
    /\ pc[p] = "rollback"
    /\ lock' = Released(p)
    /\ written' = [written EXCEPT ![p] = FALSE]
    /\ pc' = [pc EXCEPT ![p] = "done"]
    /\ txNow' = [txNow EXCEPT ![p] = 0]
    /\ sel' = [sel EXCEPT ![p] = Nil]
    /\ UNCHANGED <<keys, clock, callStart, ret, api, req, svc, http, srv>>

\* ---- the proxy's request interceptor -----------------------------------------

\* DoFunc is invoked with a request r whose Authorization header is h, and
\* calls keyGetter.UseBestKey(r.Context()).
Intercept(p, h) ==
    /\ req[p].stage # "acquiring"
    /\ EnterUseBestKey(p)
    /\ req' = [req EXCEPT ![p] =
                 [stage |-> "acquiring", recv |-> h, auth |-> h, calls |-> 1, resp |-> Nil]]
    /\ UNCHANGED <<api, svc, http, srv>>

\* A faulty variant of Injected: the header is set without looking at err.
InjectedWithoutCheck(p) == Bearer(ret[p].key)

\* A faulty variant of Injected: Header.Add semantics, a client's value is
\* kept in front of the key.
InjectedUnlessSupplied(p) ==
    IF ret[p].err = OK /\ ret[p].key # Nil /\ req[p].auth = NoAuth
    THEN Bearer(ret[p].key)
    ELSE req[p].auth

\* if err == nil && key != nil { r.Header.Set("Authorization", "Bearer "+*key) }
Injected(p) ==
    IF ret[p].err = OK /\ ret[p].key # Nil
    THEN Bearer(ret[p].key)
    ELSE req[p].auth

\* A faulty variant of Forward: after a failed acquisition UseBestKey is
\* called once more before the request is forwarded.
ForwardOrRetry(p) ==
    /\ req[p].stage = "acquiring"
    /\ pc[p] = "done"
    /\ IF ret[p].err # OK /\ req[p].calls = 1
       THEN /\ EnterUseBestKey(p)
            /\ req' = [req EXCEPT ![p].calls = 2]
            /\ UNCHANGED <<api, svc, http, srv>>
       ELSE /\ req' = [req EXCEPT ![p].auth = Injected(p),
                                  ![p].resp = Nil,
                                  ![p].stage = "forwarded"]
            /\ UNCHANGED <<keys, lock, clock, pc, callStart, txNow, sel, written, ret, api, svc, http, srv>>


\* UseBestKey has returned: the header is set on success, and return r, nil
\* hands the request on to be forwarded, with no response of the proxy's own.
Forward(p) ==
    /\ req[p].stage = "acquiring"
    /\ pc[p] = "done"
    /\ req' = [req EXCEPT ![p].auth = Injected(p),
                          ![p].resp = Nil,
                          ![p].stage = "forwarded"]
    /\ UNCHANGED <<keys, lock, clock, pc, callStart, txNow, sel, written, ret, api, svc, http, srv>>


\* ---- KeyService ---------------------------------------------------------------

\* A faulty variant of Returned: the service swallows the repository's error.
ReturnedWithoutError(r) == [r EXCEPT !.err = OK]

\* return s.repo.X(ctx, ...): what the repository returned is returned.
Returned(r) == r

\* The repository calls a service operation makes: the one of its own name,
\* with its own argument.
Delegated(op, arg) == <<[op |-> op, arg |-> arg]>>

\* What repo.UseBestKey returned to caller p.
AsResult(p) == [op |-> "UseBestKey", key |-> ret[p].key, stats |-> NilStats, err |-> ret[p].err]

\* KeyService.InsertKey, called by the key API handler.
ServiceInsertKey(k) ==
    /\ RepoInsertKey(k) \/ RepoInsertKeyFail(k)
    /\ svc' = [svc EXCEPT !["api"] =
                 [op |-> "InsertKey", arg |-> k,
                  repo |-> Delegated("InsertKey", k), out |-> Returned(api')]]

\* KeyService.GetKeyStats, called by the key API handler.
ServiceGetKeyStats ==
    /\ RepoGetKeyStats \/ RepoGetKeyStatsFail
    /\ svc' = [svc EXCEPT !["api"] =
                 [op |-> "GetKeyStats", arg |-> Nil,
                  repo |-> Delegated("GetKeyStats", Nil), out |-> Returned(api')]]

\* KeyService.UseBestKey is called by p and calls the repository, whose
\* transaction then runs step by step.
ServiceUseBestKey(p) ==
    /\ svc[p].op = "none" \/ svc[p].out # NoCall
    /\ EnterUseBestKey(p)
    /\ svc' = [svc EXCEPT ![p] =
                 [op |-> "UseBestKey", arg |-> Nil,
                  repo |-> Delegated("UseBestKey", Nil), out |-> NoCall]]
    /\ UNCHANGED <<api, req, http, srv>>

\* The repository's UseBestKey has returned and the service returns.
ServiceReturn(p) ==
    /\ svc[p].op = "UseBestKey" /\ svc[p].out = NoCall
    /\ pc[p] = "done"
    /\ svc' = [svc EXCEPT ![p].out = Returned(AsResult(p))]
    /\ UNCHANGED <<keys, lock, clock, pc, callStart, txNow, sel, written, ret,
                   api, req, http, srv>>

\* ---- the key API handler -----------------------------------------------------

\* Request bodies of POST /keys: one that is not JSON, and {"key": k}.
Malformed == "invalid-json"
Bodies == {Malformed} \cup Keys

\* A faulty variant of InsertStatus: the service's error is not looked at.
InsertStatusIgnoringError(err) == StatusCreated

\* KeyHandler.InsertKey after the service call: 500 on an error, else 201.
InsertStatus(err) == IF err = OK THEN StatusCreated ELSE StatusInternalServerError

\* KeyHandler.InsertKey: 400 without a service call when the body does not
\* decode, else one call of the service.
HandleInsertKey(b) ==
    \/ /\ b = Malformed
       /\ http' = [endpoint |-> "POST /keys", body |-> b, calls |-> << >>,
                   status |-> StatusBadRequest, payload |-> NilStats]
       /\ UNCHANGED <<keys, lock, clock, pc, callStart, txNow, sel, written, ret,
                      api, req, svc, srv>>
    \/ /\ b \in Keys
       /\ ServiceInsertKey(b)
       /\ http' = [endpoint |-> "POST /keys", body |-> b,
                   calls |-> <<[op |-> "InsertKey", arg |-> b]>>,
                   status |-> InsertStatus(svc'["api"].out.err),
                   payload |-> NilStats]
       /\ UNCHANGED srv

\* KeyHandler.GetKeyStats: one call of the service; 500 on an error, else
\* the stats are encoded into a 200 response.
HandleGetKeyStats ==
    /\ ServiceGetKeyStats
    /\ http' = [endpoint |-> "GET /keys/stats", body |-> Nil,
                calls |-> <<[op |-> "GetKeyStats", arg |-> Nil]>>,
                status |-> IF svc'["api"].out.err = OK
                           THEN StatusOK ELSE StatusInternalServerError,
                payload |-> IF svc'["api"].out.err = OK
                            THEN svc'["api"].out.stats ELSE NilStats]
    /\ UNCHANGED srv


\* ---- runSrv --------------------------------------------------------------------

\* A faulty variant of GoReturned: a group without a context, which records
\* the first error and cancels nothing.
GoReturnedWithoutCancel(g, e) ==
    IF e # "none" /\ g.err = "none" THEN [g EXCEPT !.err = e] ELSE g

\* errgroup.WithContext: when a goroutine of the group returns, its error,
\* if it is the first that is not nil, is kept for Wait and the group's
\* context is cancelled.
GoReturned(g, e) ==
    IF e # "none" /\ g.err = "none"
    THEN [g EXCEPT !.err = e, !.ctx = "cancelled"]
    ELSE g

\* What is left alone by every step of runSrv.
ServerFrame ==
    UNCHANGED <<keys, lock, clock, pc, callStart, txNow, sel, written, ret,
                api, req, svc, http>>

\* SIGINT or SIGTERM arrives: the context of signal.NotifyContext, parent of
\* the group's context, is cancelled.
Signal ==
    /\ srv.main = "waiting"
    /\ srv.ctx = "live"
    /\ srv' = [srv EXCEPT !.ctx = "cancelled"]
    /\ ServerFrame

\* A listening server accepts a connection and serves it.
Accept(s) ==
    /\ srv.main = "waiting"
    /\ srv.state[s] = "listening"
    /\ srv.conns[s] < MaxConns
    /\ srv' = [srv EXCEPT !.conns[s] = @ + 1]
    /\ ServerFrame

\* A connection in service ends.
Finish(s) ==
    /\ srv.main = "waiting"
    /\ srv.conns[s] > 0
    /\ srv' = [srv EXCEPT !.conns[s] = @ - 1]
    /\ ServerFrame

\* Accept fails: Serve closes its listener and ListenAndServe returns the
\* error.
ListenFail(s) ==
    /\ srv.main = "waiting"
    /\ srv.state[s] = "listening"
    /\ srv.listen[s] = "running"
    /\ srv' = [srv EXCEPT !.state[s] = "closed", !.listen[s] = ErrAccept]
    /\ ServerFrame

\* The listener was closed by Shutdown: ListenAndServe returns
\* ErrServerClosed.
ListenClosed(s) ==
    /\ srv.main = "waiting"
    /\ srv.state[s] = "closed"
    /\ srv.listen[s] = "running"
    /\ srv' = [srv EXCEPT !.listen[s] = ErrServerClosed]
    /\ ServerFrame

\* The goroutine that ran ListenAndServe returns the error, wrapped.
ListenReturn(s) ==
    /\ srv.main = "waiting"
    /\ srv.listen[s] \in {ErrAccept, ErrServerClosed}
    /\ srv' = [GoReturned(srv, srv.listen[s]) EXCEPT !.listen[s] = "done"]
    /\ ServerFrame

\* The goroutine that waits on ctx.Done() calls Shutdown(ctx) with the
\* cancelled context: the listener and the idle connections are closed, and
\* the call returns nil when no connection is in service, else ctx.Err();
\* the goroutine returns that.
ShutdownServer(s) ==
    /\ srv.main = "waiting"
    /\ srv.ctx = "cancelled"
    /\ srv.shutdown[s] = "waiting"
    /\ srv' = [GoReturned(srv, IF srv.conns[s] = 0 THEN "none" ELSE ErrCanceled)
                 EXCEPT !.state[s] = "closed", !.shutdown[s] = "done"]
    /\ ServerFrame

\* errGroup.Wait() returns when the four goroutines have returned, and
\* runSrv returns nil when the group's error is nil or ErrServerClosed.
WaitReturn ==
    /\ srv.main = "waiting"
    /\ \A s \in Servers : srv.listen[s] = "done" /\ srv.shutdown[s] = "done"
    /\ srv' = [srv EXCEPT !.main = IF srv.err \in {"none", ErrServerClosed}
                                     THEN "returned nil" ELSE "returned error"]
    /\ ServerFrame


\* ---- specifications --------------------------------------------------------

\* The steps of one caller's UseBestKey after it has been entered.
Acquire(p) ==
    \/ BeginTx(p)
    \/ BeginTxFail(p)
    \/ SelectKey(p)
    \/ SelectNoRows(p)
    \/ StmtFail(p)
    \/ UpdateUsedAt(p)
    \/ Commit(p)
    \/ Rollback(p)

Idle ==
    /\ lock = [k \in Keys |-> NoOwner]
    /\ pc = [p \in Procs |-> "idle"]
    /\ callStart = [p \in Procs |-> 0]
    /\ txNow = [p \in Procs |-> 0]
    /\ sel = [p \in Procs |-> Nil]
    /\ written = [p \in Procs |-> FALSE]
    /\ ret = [p \in Procs |-> NoResult]

\* No API call has returned and no proxy handler holds a request.
Quiet ==
    /\ api = NoCall
    /\ req = [p \in Procs |-> NoRequest]
    /\ svc = [c \in Clients |-> NoService]
    /\ http = NoResponse
    /\ srv = Serving

\* The service after start-up on a fresh database: the migration has
\* created an empty table.
Init ==
    /\ keys = << >>
    /\ clock = 0
    /\ Idle
    /\ Quiet

Next ==
    \/ Tick
    \/ \E k \in Keys : InsertKey(k)
    \/ \E p \in Procs : Call(p)
    \/ \E p \in Procs : Acquire(p)

Spec == Init /\ [][Next]_vars

\* Two simultaneous calls on a store of one or two keys: a state of Spec in
\* which the ids have been inserted (and possibly used) and both callers
\* have just entered UseBestKey; each caller makes this one call.
ApiRows(now) ==
    [balance : {DefaultBalance}, createdAt : 0..now, usedAt : (0..now) \cup {NULL}]

InitTwo ==
    /\ clock \in Times
    /\ \E S \in SUBSET Keys :
        /\ Cardinality(S) \in {1, 2}
        /\ keys \in [S -> ApiRows(clock)]
    /\ lock = [k \in Keys |-> NoOwner]
    /\ pc = [p \in Procs |-> "begin"]
    /\ callStart = [p \in Procs |-> clock]
    /\ txNow = [p \in Procs |-> 0]
    /\ sel = [p \in Procs |-> Nil]
    /\ written = [p \in Procs |-> FALSE]
    /\ ret = [p \in Procs |-> NoResult]
    /\ Quiet

NextTwo ==
    \/ Tick
    \/ \E p \in Procs : Acquire(p)

SpecTwo == InitTwo /\ [][NextTwo]_vars

\* One caller on a table filled as the repository tests fill it, with
\* INSERTs that give balance, created_at and used_at explicitly.
SeedRows == [balance : SeedBalances, createdAt : Times, usedAt : Times \cup {NULL}]

Caller == CHOOSE p \in Procs : TRUE

InitSeeded ==
    /\ \E S \in SUBSET Keys : keys \in [S -> SeedRows]
    /\ clock = 0
    /\ Idle
    /\ Quiet

NextSeeded ==
    \/ Tick
    \/ Call(Caller)
    \/ Acquire(Caller)

SpecSeeded == InitSeeded /\ [][NextSeeded]_vars

\* Acquisitions issued one after another on a fixed pool: the keys of the
\* pool were inserted through the API at the same time and have not been
\* used; one caller calls UseBestKey again and again and every statement
\* succeeds.  The caller keeps going: a step of its call that is possible
\* is eventually taken.
FreshPools ==
    UNION {[S -> {Row(DefaultBalance, c, NULL)}] :
             <<S, c>> \in {T \in SUBSET Keys : Cardinality(T) >= 2} \X (0..clock)}

InitRotate ==
    /\ clock \in Times
    /\ keys \in FreshPools
    /\ Idle
    /\ Quiet

Succeed(p) ==
    \/ Call(p)
    \/ BeginTx(p)
    \/ SelectKey(p)
    \/ UpdateUsedAt(p)
    \/ Commit(p)

NextRotate ==
    \/ Tick
    \/ Succeed(Caller)

SpecRotate == InitRotate /\ [][NextRotate]_vars /\ WF_vars(Succeed(Caller))


\* The proxy in front of a pool that was inserted through the API (and
\* possibly used): every handler intercepts one request after the other.
InitProxy ==
    /\ clock \in Times
    /\ \E S \in SUBSET Keys :
        /\ Cardinality(S) <= 2
        /\ keys \in [S -> ApiRows(clock)]
    /\ Idle
    /\ Quiet

NextProxy ==
    \/ Tick
    \/ \E p \in Procs : \E h \in ClientAuths : Intercept(p, h)
    \/ \E p \in Procs : Acquire(p)
    \/ \E p \in Procs : Forward(p)

SpecProxy == InitProxy /\ [][NextProxy]_vars


\* The key API beside one caller of UseBestKey, on a fresh database.
NextApi ==
    \/ Tick
    \/ \E k \in Keys : InsertKeyCall(k)
    \/ \E k \in Keys : InsertKeyFail(k)
    \/ Call(Caller)
    \/ Acquire(Caller)

SpecApi == Init /\ [][NextApi]_vars


\* The key API on a table filled as the repository tests fill it.
NextStats ==
    \/ GetKeyStats
    \/ GetKeyStatsFail
    \/ \E k \in Keys : InsertKeyCall(k)

SpecStats == InitSeeded /\ [][NextStats]_vars


\* The three core operations together on a fresh database: inserts and
\* stats calls through the API beside one caller of UseBestKey.
NextCore ==
    \/ NextApi
    \/ GetKeyStats
    \/ GetKeyStatsFail

SpecCore == Init /\ [][NextCore]_vars


\* Two callers that call UseBestKey again and again on a pool of one or two
\* keys.  A call that has been entered goes on: the goroutine executes its
\* next statement, which succeeds or fails, and the deferred rollback.
NextLocks ==
    \/ Tick
    \/ \E p \in Procs : Call(p)
    \/ \E p \in Procs : Acquire(p)

SpecLocks ==
    InitTwo /\ [][NextLocks]_vars /\ \A p \in Procs : WF_vars(Acquire(p))


\* The key API (handler over service over repository) beside one client that
\* calls UseBestKey through the service, on a fresh database.
NextAdmin ==
    \/ Tick
    \/ \E b \in Bodies : HandleInsertKey(b)
    \/ HandleGetKeyStats
    \/ ServiceUseBestKey(Caller)
    \/ Acquire(Caller)
    \/ ServiceReturn(Caller)

SpecAdmin == Init /\ [][NextAdmin]_vars


\* runSrv from the moment both servers listen. The goroutines of the group
\* are scheduled: each step one of them can take is taken eventually.
\* Signals, failures of Accept and the clients' connections are not.
NextSrv ==
    \/ Signal
    \/ \E s \in Servers : Accept(s)
    \/ \E s \in Servers : Finish(s)
    \/ \E s \in Servers : ListenFail(s)
    \/ \E s \in Servers : ListenClosed(s)
    \/ \E s \in Servers : ListenReturn(s)
    \/ \E s \in Servers : ShutdownServer(s)
    \/ WaitReturn

SpecSrv ==
    /\ Init /\ [][NextSrv]_vars
    /\ \A s \in Servers :
          /\ WF_vars(ListenClosed(s))
          /\ WF_vars(ListenReturn(s))
          /\ WF_vars(ShutdownServer(s))
    /\ WF_vars(WaitReturn)


\* ---- claims ------------------------------------------------------------------

\* p is an in-flight acquisition: it has selected a row and its transaction
\* has neither committed nor rolled back.
Holds(p) == pc[p] \in {"update", "commit", "rollback"} /\ sel[p] # Nil

Free(k) == lock[k] = NoOwner

\* C1: mutual exclusion on keys. In every reachable state the row an in-flight
\* acquisition has selected is locked by that acquisition, and no two in-flight
\* acquisitions have selected the same key.
MutualExclusion ==
    \A p \in Procs : Holds(p) =>
        /\ sel[p] \in Present
        /\ lock[sel[p]] = p
        /\ \A q \in Procs \ {p} : Holds(q) => sel[q] # sel[p]

\* Two acquisitions are in flight at once, each holding its own key.
TwoInFlight ==
    \E p, q \in Procs : p # q /\ Holds(p) /\ Holds(q) /\ sel[p] # sel[q]

\* C2: lock-skip fallthrough. A SELECT that returns a row returns a row that
\* was not locked, and no row that was not locked ranks before it; it reports
\* no rows only when every stored row was locked by another acquisition.
LockSkipFallthrough ==
    [][\A p \in Procs :
        /\ pc[p] = "select" /\ pc'[p] = "update" =>
              /\ sel'[p] \in Present
              /\ Free(sel'[p])
              /\ \A j \in Present :
                    Free(j) => ~RankBefore(keys[j], keys[sel'[p]])
        /\ pc[p] = "select" /\ ret'[p].err = ErrNoRows =>
              \A j \in Present : ~Free(j)
      ]_vars

\* A caller has selected a key that the row held by another acquisition
\* ranks before, while a third, free row ranks after the selected one.
SkippedLockedTop ==
    \E p, q \in Procs : \E j \in Present :
        /\ p # q /\ pc[p] = "update" /\ Holds(q)
        /\ RankBefore(keys[sel[q]], keys[sel[p]])
        /\ Free(j) /\ RankBefore(keys[sel[p]], keys[j])

\* C4: non-blocking acquisition. Whatever the other acquisitions hold and
\* however long they stall, the statement a caller is at can be executed:
\* every position of a call has its own step enabled, and each such step
\* moves the call on towards its return.
NonBlocking ==
    \A p \in Procs :
        /\ pc[p] = "begin" => ENABLED BeginTx(p)
        /\ pc[p] = "select" => ENABLED (SelectKey(p) \/ SelectNoRows(p))
        /\ pc[p] = "update" => ENABLED UpdateUsedAt(p)
        /\ pc[p] = "commit" => ENABLED Commit(p)
        /\ pc[p] = "rollback" => ENABLED Rollback(p)

\* A caller is about to select while another acquisition holds the lock of
\* the first-ranked row.
SelectsUnderContention ==
    \E p, q \in Procs :
        /\ p # q /\ pc[p] = "select" /\ Holds(q)
        /\ sel[q] \in BestOf(Present)
\* C6: null handling in the used_at tie-break. Of the free rows with the
\* created_at of the selected row, the selected row has a null used_at only
\* if all of them have, and no non-null used_at among them is earlier than
\* a non-null used_at of the selected row.
NullsLastTieBreak ==
    [][\A p \in Procs :
        pc[p] = "select" /\ pc'[p] = "update" =>
            \A j \in Present :
                Free(j) /\ keys[j].createdAt = keys[sel'[p]].createdAt =>
                    /\ keys[sel'[p]].usedAt = NULL => keys[j].usedAt = NULL
                    /\ keys[sel'[p]].usedAt # NULL /\ keys[j].usedAt # NULL =>
                          keys[sel'[p]].usedAt <= keys[j].usedAt
      ]_vars

\* A used key has been selected although a free, never used key of the same
\* created_at is stored.
UsedKeyBeatsNeverUsed ==
    \E p \in Procs : \E j \in Present :
        /\ pc[p] = "update" /\ keys[sel[p]].usedAt # NULL
        /\ Free(j) /\ keys[j].usedAt = NULL
        /\ keys[j].createdAt = keys[sel[p]].createdAt

\* C7: effect of a successful acquisition. The step in which a call returns
\* a key id leaves that key, the row the call had selected, with a non-null
\* committed used_at that is at least the time at which the call was
\* entered, and changes no other row.
UsedAtSetOnSuccess ==
    [][\A p \in Procs :
        pc'[p] = "done" /\ pc[p] # "done" /\ ret'[p].err = OK =>
            /\ ret'[p].key = sel[p]
            /\ ret'[p].key \in Present
            /\ keys'[ret'[p].key].usedAt # NULL
            /\ keys'[ret'[p].key].usedAt >= callStart[p]
            /\ \A j \in Present \ {ret'[p].key} : keys'[j] = keys[j]
      ]_vars

\* A call entered after the clock had advanced has returned a key whose
\* used_at is the time of that call.
ReturnedKeyStamped ==
    \E p \in Procs :
        /\ pc[p] = "done" /\ ret[p].err = OK
        /\ callStart[p] > 0
        /\ keys[ret[p].key].usedAt = callStart[p]

\* C8: used_at monotonicity. The committed used_at of a key, once non-null,
\* never decreases from one state to the next.
UsedAtMonotonic ==
    [][\A k \in Present :
        keys[k].usedAt # NULL => keys'[k].usedAt >= keys[k].usedAt
      ]_vars

\* C9: no key available. A SELECT executed when every stored row is locked
\* by other acquisitions (or none is stored) makes the call return nil and
\* sql.ErrNoRows; that step and the rollback after it change neither the
\* table nor any lock, and the steps of a call before its SELECT change
\* neither.
NoKeyAvailable ==
    [][\A p \in Procs :
        /\ ( /\ pc[p] = "select" /\ pc'[p] # "select"
             /\ \A k \in Present : ~Free(k)
             /\ ret'[p].err # ErrIO )
           => /\ ret'[p] = [key |-> Nil, err |-> ErrNoRows]
              /\ pc'[p] = "rollback"
              /\ keys' = keys /\ lock' = lock
        /\ pc[p] = "rollback" /\ pc'[p] # "rollback" /\ ret[p].err = ErrNoRows
           => /\ pc'[p] = "done" /\ ret'[p] = ret[p]
              /\ keys' = keys /\ lock' = lock /\ ~written'[p]
        /\ pc[p] \in {"idle", "done", "begin"} /\ pc'[p] # pc[p]
           => keys' = keys /\ lock' = lock
      ]_vars

\* A call is returning sql.ErrNoRows from a store that is not empty: every
\* stored row is locked by another acquisition.
NoRowsAllLocked ==
    \E p \in Procs :
        /\ pc[p] = "rollback" /\ ret[p].err = ErrNoRows
        /\ Present # {}
        /\ \A k \in Present : lock[k] \notin {NoOwner, p}

\* C10: atomicity on error. A call that fails returns a nil key with its
\* error; a stored row changes only in the step in which the acquisition
\* that selected it commits and returns its id, so no write of a failing
\* call ever reaches the committed table; and once the call has returned,
\* its transaction holds no lock and no uncommitted write.
AtomicOnError ==
    [][/\ \A p \in Procs :
            /\ ret'[p].err \in {ErrIO, ErrNoRows} => ret'[p].key = Nil
            /\ pc'[p] = "done" =>
                  /\ ~written'[p]
                  /\ \A k \in Keys : lock'[k] # p
       /\ \A k \in Present :
            keys'[k] # keys[k] =>
                \E p \in Procs :
                    /\ pc[p] = "commit" /\ sel[p] = k
                    /\ ret'[p] = [key |-> k, err |-> OK]
      ]_vars

\* A call has failed at its COMMIT: its UPDATE is still uncommitted, the
\* committed used_at of the row is still null, and the rollback is due.
FailedAfterUpdate ==
    \E p \in Procs :
        /\ pc[p] = "rollback" /\ ret[p].err = ErrIO
        /\ written[p] /\ keys[sel[p]].usedAt = NULL
\* C3 as stated: two simultaneous calls on a store of exactly two keys both
\* succeed and return the two distinct keys.
SimultaneousCallsDistinct ==
    ( /\ Cardinality(Present) = 2
      /\ \A p \in Procs : pc[p] = "done" /\ ret[p].err # ErrIO ) =>
        /\ \A p \in Procs : ret[p].err = OK
        /\ \A p, q \in Procs : p # q => ret[p].key # ret[q].key

\* C3 as amended: a call that selects while another acquisition holds its
\* row selects a different row, and on a store of two keys it does obtain
\* one; a call that returns a key while another acquisition holds its row
\* returns a key other than that row's.
OverlappingHoldersDistinct ==
    [][\A p, q \in Procs :
        p # q /\ Holds(q) =>
            /\ pc[p] = "select" /\ pc'[p] = "update" => sel'[p] # sel[q]
            /\ ( /\ pc[p] = "select" /\ pc'[p] # "select"
                 /\ Cardinality(Present) = 2 /\ ret'[p].err # ErrIO )
               => pc'[p] = "update"
            /\ pc[p] # "done" /\ pc'[p] = "done" /\ ret'[p].err = OK =>
                  ret'[p].key # sel[q]
      ]_vars

\* Both calls are about to commit, each with its own key.
BothAboutToCommit ==
    /\ \A p \in Procs : pc[p] = "commit"
    /\ \A p, q \in Procs : p # q => sel[p] # sel[q]

\* C5: ranking. With every stored row free, a SELECT on a non-empty store
\* returns a row that is first in the order created_at descending, then
\* used_at ascending (null last), then balance descending: no row is
\* newer; of the rows as new none has an earlier used_at; of the rows equal
\* in both none has a higher balance.
RankingOrder ==
    [][\A p \in Procs :
        ( /\ pc[p] = "select" /\ pc'[p] # "select"
          /\ Present # {} /\ \A k \in Present : Free(k)
          /\ ret'[p].err # ErrIO )
        => /\ pc'[p] = "update"
           /\ sel'[p] \in Present
           /\ \A j \in Present :
                /\ keys[j].createdAt <= keys[sel'[p]].createdAt
                /\ keys[j].createdAt = keys[sel'[p]].createdAt =>
                      /\ keys[sel'[p]].usedAt = NULL => keys[j].usedAt = NULL
                      /\ keys[j].usedAt # NULL /\ keys[sel'[p]].usedAt # NULL =>
                            keys[sel'[p]].usedAt <= keys[j].usedAt
                /\ ( /\ keys[j].createdAt = keys[sel'[p]].createdAt
                     /\ keys[j].usedAt = keys[sel'[p]].usedAt )
                   => keys[j].balance <= keys[sel'[p]].balance
      ]_vars

\* The selected key is newer than a key with an earlier used_at and a
\* higher balance, and has a higher balance than a key equal to it in
\* created_at and used_at.
NewestThenRichest ==
    \E p \in Procs : \E i, j \in Present :
        /\ pc[p] = "update"
        /\ keys[i].createdAt < keys[sel[p]].createdAt
        /\ keys[i].balance > keys[sel[p]].balance
        /\ keys[i].usedAt # NULL
        /\ keys[sel[p]].usedAt = NULL \/ keys[i].usedAt < keys[sel[p]].usedAt
        /\ keys[j].createdAt = keys[sel[p]].createdAt
        /\ keys[j].usedAt = keys[sel[p]].usedAt
        /\ keys[j].balance < keys[sel[p]].balance

\* C11: cancellation. With one caller and nobody else writing, the store
\* changes only in the step in which the call commits and returns a key:
\* a call whose context is cancelled before the COMMIT (it returns the
\* error) leaves every row as it was before the attempt; and when that call
\* has returned, its rollback has released the row lock and discarded the
\* UPDATE.
CancelRollsBack ==
    [][/\ keys' # keys => pc[Caller] = "commit" /\ ret'[Caller].err = OK
       /\ ret'[Caller].err = ErrIO => keys' = keys
       /\ ( /\ pc[Caller] = "rollback" /\ pc'[Caller] = "done"
            /\ ret'[Caller].err = ErrIO )
          => /\ lock' = [k \in Keys |-> NoOwner]
             /\ ~written'[Caller]
      ]_vars

\* The call has been cancelled after its UPDATE: it has returned the error
\* to its deferred rollback while it still holds the lock on the row it
\* selected and the row's uncommitted used_at.
CancelledHoldingLock ==
    /\ pc[Caller] = "rollback" /\ ret[Caller].err = ErrIO
    /\ sel[Caller] \in Present /\ lock[sel[Caller]] = Caller
    /\ written[Caller]
    /\ keys[sel[Caller]].usedAt # txNow[Caller]

\* C12 as stated: the ranking is a strict total order, any two distinct
\* stored keys are ranked one before the other, so a SELECT on a given
\* store state has exactly one key it can return.
SelectionDeterministic ==
    /\ \A j, k \in Present :
          j # k => RankBefore(keys[j], keys[k]) \/ RankBefore(keys[k], keys[j])
    /\ pc[Caller] = "select" /\ Lockable(Caller) # {} =>
          Cardinality(Selected(Caller)) = 1

\* C12 as amended: the ranking is total up to ties. The key a SELECT
\* returns ranks strictly before every unlocked key that differs from it in
\* created_at, used_at or balance; the keys it could have returned instead
\* are those equal to it in all three; so when no unlocked key equals it in
\* all three, it is the one key the SELECT can return.
SelectionDeterministicUpToTies ==
    [][( pc[Caller] = "select" /\ pc'[Caller] = "update" ) =>
        /\ sel'[Caller] \in Lockable(Caller)
        /\ \A j \in Lockable(Caller) :
              keys[j] # keys[sel'[Caller]] =>
                  /\ RankBefore(keys[sel'[Caller]], keys[j])
                  /\ ~RankBefore(keys[j], keys[sel'[Caller]])
        /\ Selected(Caller) =
              {j \in Lockable(Caller) : keys[j] = keys[sel'[Caller]]}
      ]_vars

\* The SELECT has returned a key that outranks one key and ties with
\* another in all three columns.
TiedAndOutranked ==
    \E i, j \in Present \ {sel[Caller]} :
        /\ pc[Caller] = "update"
        /\ keys[i] = keys[sel[Caller]]
        /\ keys[j] # keys[sel[Caller]]

\* C13: rotation toward the back. When an acquisition of key k commits
\* (with a timestamp not before k's previous used_at), the committed row of
\* k carries the new used_at, and k ranks before no key that it did not rank
\* before until then.
RotatesTowardBack ==
    [][( /\ pc[Caller] = "commit" /\ pc'[Caller] = "done"
         /\ ret'[Caller].err = OK
         /\ keys[sel[Caller]].usedAt <= txNow[Caller] )
       => /\ keys'[sel[Caller]].usedAt = txNow[Caller]
          /\ \A j \in Present \ {sel[Caller]} :
                RankBefore(keys'[sel[Caller]], keys'[j]) =>
                    RankBefore(keys[sel[Caller]], keys[j])
      ]_vars

\* C14: fair key rotation. With a fixed pool of keys that share their
\* created_at and acquisitions issued one after another, every key of the
\* pool is eventually returned by an acquisition.
EveryKeyEventuallyReturned ==
    \A k \in Keys :
        <>(k \in Present => pc[Caller] = "done" /\ ret[Caller] = [key |-> k, err |-> OK])

\* C15: interceptor fail-open. A request whose acquisition failed (no row,
\* or any other error) is forwarded with the Authorization header it was
\* received with and with no response of the proxy's own; and a request
\* whose acquisition has returned can always be forwarded.
FailOpen ==
    \A p \in Procs :
        /\ ( req[p].stage = "forwarded" /\ ret[p].err # OK ) =>
              /\ req[p].auth = req[p].recv
              /\ req[p].resp = Nil
        /\ ( req[p].stage = "acquiring" /\ pc[p] = "done" ) => ENABLED Forward(p)

\* Both ways of failing have been forwarded: a request that carried a
\* client's header found no key, and one found the store failing.
ForwardedAfterFailure ==
    \E p, q \in Procs :
        /\ req[p].stage = "forwarded" /\ ret[p].err = ErrNoRows
        /\ req[p].recv = Bearer("client-token")
        /\ req[q].stage = "forwarded" /\ ret[q].err = ErrIO

\* C16: interceptor credential injection. When the acquisition of a request
\* commits, the key it returns is the row it selected and that row's
\* used_at takes the transaction's now(), no other row changing; and when
\* the request is then forwarded, its Authorization header is exactly
\* "Bearer " + that key, whatever the client had sent, and the proxy
\* returns no response of its own.
CredentialInjected ==
    [][\A p \in Procs :
        /\ ( /\ req[p].stage = "acquiring"
             /\ pc[p] = "commit" /\ pc'[p] = "done" /\ ret'[p].err = OK )
           => /\ ret'[p].key = sel[p]
              /\ sel[p] \in Present
              /\ keys' = [keys EXCEPT ![sel[p]].usedAt = txNow[p]]
        /\ ( /\ req[p].stage = "acquiring" /\ req'[p].stage = "forwarded"
             /\ ret[p].err = OK )
           => /\ ret[p].key \in Present
              /\ req'[p].auth = Bearer(ret[p].key)
              /\ req'[p].recv = req[p].recv
              /\ req'[p].resp = Nil
      ]_vars

\* A request that came with a client's Authorization value has been
\* forwarded with the acquired key in its place.
ClientValueReplaced ==
    \E p \in Procs :
        /\ req[p].stage = "forwarded" /\ ret[p].err = OK
        /\ req[p].recv = Bearer("client-token")
        /\ req[p].auth = Bearer(ret[p].key)
        /\ keys[ret[p].key].usedAt # NULL

\* C17: one acquisition per request. UseBestKey is entered only as the
\* first statement of the handling of a new request, which makes it that
\* request's one call; while the request is being handled no further call
\* is made; and the request is forwarded only once that call has returned,
\* whether it succeeded or failed.
OneAcquisitionPerRequest ==
    [][\A p \in Procs :
        /\ ( pc[p] # "begin" /\ pc'[p] = "begin" ) =>
              /\ req[p].stage # "acquiring"
              /\ req'[p].stage = "acquiring"
              /\ req'[p].calls = 1
        /\ ( req[p].stage = "acquiring" /\ req'[p].stage = "acquiring" ) =>
              req'[p].calls = req[p].calls
        /\ ( req[p].stage # "forwarded" /\ req'[p].stage = "forwarded" ) =>
              /\ req[p].stage = "acquiring"
              /\ pc[p] = "done" /\ pc'[p] = "done"
              /\ ret[p].err \in {OK, ErrNoRows, ErrIO}
              /\ req'[p].calls = 1
      ]_vars

\* A request whose one acquisition failed has been forwarded, and its
\* handler has made no further call.
ForwardedAfterOneFailedCall ==
    \E p \in Procs :
        /\ req[p].stage = "forwarded" /\ req[p].calls = 1
        /\ pc[p] = "done" /\ ret[p].err \in {ErrNoRows, ErrIO}
        /\ Present # {}

\* C18: idempotent insert. An InsertKey call (a step that returns to the
\* API without the caller of UseBestKey or the clock moving) for an id that
\* is stored returns no error unless the store is unreachable, and leaves
\* the table as it is: the row keeps its balance, created_at and used_at.
\* For an id that is not stored it adds the one row (default balance,
\* created_at now, used_at null) and changes no other row.
IdempotentInsert ==
    [][\A k \in Keys :
        ( /\ api'.op = "InsertKey" /\ api'.key = k
          /\ pc' = pc /\ clock' = clock
          /\ api' # api \/ keys' # keys )
        => /\ api'.err \in {OK, ErrIO}
           /\ api'.err = ErrIO => keys' = keys
           /\ k \in Present => keys' = keys
           /\ ( k \notin Present /\ api'.err = OK ) =>
                 /\ DOMAIN keys' = Present \cup {k}
                 /\ keys'[k] = Row(DefaultBalance, clock, NULL)
                 /\ \A j \in Present : keys'[j] = keys[j]
      ]_vars

\* The last API call was a successful InsertKey of an id that was stored
\* before another stored id was and that has been used since: a duplicate
\* insert, and the row still has its created_at and its used_at.
DuplicateInsertOfUsedKey ==
    \E j \in Present :
        /\ api.op = "InsertKey" /\ api.err = OK /\ api.key \in Present
        /\ keys[api.key].createdAt < keys[j].createdAt
        /\ keys[api.key].usedAt # NULL

\* C19: stats on an empty store. When GetKeyStats has returned on a store
\* without keys, and the store was reachable, it has returned no error and
\* the stats count 0, balance 0.
StatsOnEmptyStore ==
    ( api.op = "GetKeyStats" /\ Present = {} /\ api.err # ErrIO ) =>
        /\ api.err = OK
        /\ api.stats = <<[Count |-> 0, Balance |-> 0]>>

\* C20: stats on a non-empty store. A GetKeyStats call changes no row and
\* no lock; on a store with keys, unless the store is unreachable, it
\* returns without error the number of rows and the sum of their balances.
StatsOnNonEmptyStore ==
    [][( api'.op = "GetKeyStats" /\ api' # api ) =>
        /\ keys' = keys /\ lock' = lock /\ written' = written
        /\ ( Present # {} /\ api'.err # ErrIO ) =>
              /\ api'.err = OK
              /\ api'.stats = <<[Count |-> Cardinality(Present),
                                 Balance |-> SumBalance(Present)]>>
      ]_vars

\* The stats of three keys with balances 1000, 2000 and 3000: count 3,
\* balance 6000.
StatsOfThreeSeeds ==
    /\ {keys[k].balance : k \in Present} = {1000, 2000, 3000}
    /\ api = [op |-> "GetKeyStats", key |-> Nil,
              stats |-> <<[Count |-> 3, Balance |-> 6000]>>, err |-> OK]

\* C22: frame of the core operations. No step of an insert, an acquisition
\* or a stats call removes a row or changes the balance or created_at of a
\* stored row; a step changes the used_at of at most one stored row, and
\* only as the commit of an acquisition that selected that row and returns
\* its id.
CoreFrame ==
    [][/\ Present \subseteq DOMAIN keys'
       /\ \A k \in Present :
            /\ keys'[k].balance = keys[k].balance
            /\ keys'[k].createdAt = keys[k].createdAt
            /\ keys'[k].usedAt # keys[k].usedAt =>
                  /\ \E p \in Procs :
                        /\ pc[p] = "commit" /\ pc'[p] = "done" /\ sel[p] = k
                        /\ ret'[p] = [key |-> k, err |-> OK]
                  /\ \A j \in Present \ {k} : keys'[j] = keys[j]
      ]_vars

\* All three operations have acted: a key has been inserted and acquired
\* (it still has the default balance and its created_at), a second key
\* has been inserted later and never used, and a stats call has returned.
CoreOperationsDone ==
    \E j, k \in Present :
        /\ keys[k].usedAt # NULL /\ keys[k].balance = DefaultBalance
        /\ keys[j].usedAt = NULL /\ keys[j].createdAt > keys[k].createdAt
        /\ api.op = "GetKeyStats" /\ api.err = OK
        /\ pc[Caller] = "done" /\ ret[Caller] = [key |-> k, err |-> OK]

\* C23: used_at lifecycle. A row is created with used_at null; a null
\* used_at becomes non-null only in the commit of an acquisition that
\* selected the row; the commit of an acquisition leaves the used_at of the
\* row it selected non-null; and a non-null used_at never becomes null
\* again. Hence in every committed state used_at is non-null exactly for
\* the keys some committed acquisition has selected.
UsedAtLifecycle ==
    [][/\ \A k \in DOMAIN keys' \ Present : keys'[k].usedAt = NULL
       /\ \A k \in Present :
            /\ keys[k].usedAt # NULL => keys'[k].usedAt # NULL
            /\ ( keys[k].usedAt = NULL /\ keys'[k].usedAt # NULL ) =>
                  \E p \in Procs :
                      /\ pc[p] = "commit" /\ pc'[p] = "done" /\ sel[p] = k
                      /\ ret'[p].err = OK
       /\ \A p \in Procs :
            ( pc[p] = "commit" /\ pc'[p] = "done" /\ ret'[p].err = OK ) =>
                /\ sel[p] \in Present
                /\ keys'[sel[p]].usedAt # NULL
      ]_vars

\* Of two keys inserted at the same time one has been selected by a
\* committed acquisition and the other by none: the first has a used_at,
\* the second has not.
UsedAndNeverUsed ==
    \E j, k \in Present :
        /\ pc[Caller] = "done" /\ ret[Caller] = [key |-> k, err |-> OK]
        /\ keys[k].usedAt # NULL
        /\ keys[j].usedAt = NULL /\ keys[j].createdAt = keys[k].createdAt

\* C25: lock release on every exit path. A caller that is not inside
\* UseBestKey (it has not called yet, or its call has returned a key, no
\* rows, or an error) holds no row lock and no uncommitted write; and a row
\* locked by an acquisition is eventually unlocked, open to selection
\* again.
LocksReleasedOnReturn ==
    /\ [](\A p \in Procs :
            pc[p] \in {"idle", "begin", "done"} =>
                /\ \A k \in Keys : lock[k] # p
                /\ ~written[p])
    /\ \A k \in Keys : ~Free(k) ~> Free(k)

\* Calls have returned on three exit paths, each after holding a row lock
\* or finding every row locked, and no row is locked any more: one caller
\* returned the key, the other returned an error other than no rows.
ReturnedAndUnlocked ==
    \E p, q \in Procs :
        /\ pc[p] = "done" /\ ret[p].err = OK
        /\ pc[q] = "done" /\ ret[q].err = ErrIO
        /\ keys[ret[p].key].usedAt # NULL
        /\ \A k \in Keys : Free(k)

\* C26: balance/count invariant through the public interface. After every
\* step of an insert, an acquisition or a stats call on a database that
\* started empty, every stored key has balance 1000000; the row
\* SELECT COUNT(*), SUM(balance) would return on a non-empty store has
\* Balance = 1000000 * Count, and so have the stats a successful
\* GetKeyStats returned; and a step of an acquisition leaves that row as
\* it is.
BalanceCountInvariant ==
    [][/\ \A k \in DOMAIN keys' : keys'[k].balance = 1000000
       /\ DOMAIN keys' # {} => Aggregate'.Balance = 1000000 * Aggregate'.Count
       /\ ( api'.op = "GetKeyStats" /\ api'.err = OK ) =>
             /\ Len(api'.stats) = 1
             /\ api'.stats[1].Count >= 1
             /\ api'.stats[1].Balance = 1000000 * api'.stats[1].Count
       /\ pc' # pc => Aggregate' = Aggregate
      ]_vars

\* A stats call made after an acquisition committed returned what a stats
\* call made before it would have: two keys, balance 2000000.
StatsAfterAcquisition ==
    /\ Cardinality(Present) = 2
    /\ \E k \in Present : keys[k].usedAt # NULL
    /\ api = [op |-> "GetKeyStats", key |-> Nil,
              stats |-> <<[Count |-> 2, Balance |-> 2000000]>>, err |-> OK]

\* C24: the service is a pure facade. Every call of a service operation
\* makes one repository call, of the same operation with the same argument,
\* and returns what that call returned: InsertKey and GetKeyStats the
\* result the repository produced in that step (the repository is not
\* called in any other way), UseBestKey, entered together with the
\* repository's, the key and error the repository's call came back with.
ServiceIsFacade ==
    [][/\ api' # api => svc'["api"].out = api'
       /\ svc'["api"] # svc["api"] =>
             /\ svc'["api"].op \in {"InsertKey", "GetKeyStats"}
             /\ svc'["api"].repo =
                   <<[op |-> svc'["api"].op, arg |-> svc'["api"].arg]>>
             /\ svc'["api"].out = api'
             /\ api'.op = svc'["api"].op
             /\ api'.op = "InsertKey" => api'.key = svc'["api"].arg
       /\ \A p \in Procs :
             /\ pc[p] # "begin" /\ pc'[p] = "begin" =>
                   /\ svc'[p].op = "UseBestKey"
                   /\ svc'[p].repo = <<[op |-> "UseBestKey", arg |-> Nil]>>
                   /\ svc'[p].out = NoCall
             /\ ( svc[p].out = NoCall /\ svc'[p].out # NoCall ) =>
                   /\ pc[p] = "done"
                   /\ svc'[p].repo = svc[p].repo
                   /\ svc'[p].out.key = ret[p].key
                   /\ svc'[p].out.err = ret[p].err
      ]_vars

\* The service has handed on an error of the repository and a key of the
\* repository.
ErrorAndKeyPassedOn ==
    /\ svc["api"].op \in {"InsertKey", "GetKeyStats"}
    /\ svc["api"].out.err = ErrIO /\ api.err = ErrIO
    /\ svc[Caller].out.err = OK /\ svc[Caller].out.key \in Keys
    /\ ret[Caller].key = svc[Caller].out.key


\* C21: the outcomes of the key API. POST /keys with a body that is not
\* decodable JSON is answered 400 and the service is not called (nothing of
\* the service, the repository or the table changes in that step); with a
\* decodable body the service's InsertKey is called once with the key and
\* the answer is 500 when it failed and 201 when it succeeded. GET
\* /keys/stats calls the service's GetKeyStats once and is answered 500
\* when it failed, else 200 with the Count and Balance the service gave.
ApiOutcomes ==
    /\ [](/\ ( http.endpoint = "POST /keys" /\ http.body = Malformed ) =>
                http.status = 400 /\ http.calls = << >>
          /\ ( http.endpoint = "POST /keys" /\ http.body # Malformed ) =>
                /\ http.calls = <<[op |-> "InsertKey", arg |-> http.body]>>
                /\ svc["api"].op = "InsertKey" /\ svc["api"].arg = http.body
                /\ svc["api"].out.err # OK => http.status = 500
                /\ svc["api"].out.err = OK => http.status = 201
          /\ http.endpoint = "GET /keys/stats" =>
                /\ http.calls = <<[op |-> "GetKeyStats", arg |-> Nil]>>
                /\ svc["api"].op = "GetKeyStats"
                /\ svc["api"].out.err # OK => http.status = 500
                /\ svc["api"].out.err = OK =>
                      /\ http.status = 200
                      /\ Len(http.payload) = 1
                      /\ http.payload[1].Count = svc["api"].out.stats[1].Count
                      /\ http.payload[1].Balance = svc["api"].out.stats[1].Balance)
    /\ [][( http' # http /\ http'.body = Malformed ) =>
             /\ http'.status = 400
             /\ svc' = svc /\ api' = api /\ keys' = keys]_vars

\* A key was inserted through the API before, and the last request, a
\* well-formed POST /keys, was answered 500 because the service failed.
InsertAnswered500AfterCreated ==
    /\ Present # {}
    /\ http.endpoint = "POST /keys" /\ http.body \in Keys
    /\ svc["api"].out.err = ErrIO
    /\ http.status = 500


\* C27: coordinated shutdown. Once both servers listen, a termination
\* signal or an error returned by either ListenAndServe leads to: the shared
\* context cancelled, Shutdown invoked on both servers (both listeners
\* closed), the four goroutines returned, and runSrv returned. A server
\* whose ListenAndServe failed leads to the other server no longer
\* listening, and a closed server accepts no connection.
CoordinatedShutdown ==
    /\ ( srv.ctx = "cancelled" \/ \E s \in Servers : srv.listen[s] = ErrAccept ) ~>
          ( /\ srv.ctx = "cancelled"
            /\ \A s \in Servers :
                  /\ srv.shutdown[s] = "done" /\ srv.state[s] = "closed"
                  /\ srv.listen[s] = "done"
            /\ srv.main # "waiting" )
    /\ \A s \in Servers :
          srv.listen[s] = ErrAccept ~> ( \A t \in Servers : srv.state[t] = "closed" )
    /\ [][\A s \in Servers :
             srv.state[s] = "closed" => srv'.conns[s] <= srv.conns[s]]_vars

\* The API server's ListenAndServe failed while the proxy server had a
\* connection in service, and runSrv has returned with both servers shut
\* down.
ReturnedAfterListenFailure ==
    /\ srv.err = ErrAccept
    /\ srv.conns["proxy"] = 1
    /\ srv.main = "returned error"
    /\ \A s \in Servers : srv.shutdown[s] = "done" /\ srv.listen[s] = "done"
====
